---- MODULE Spec2Model ----
(***************************************************************************)
(* Model of src/src/qibo/noise.py: the quantum error descriptors, the      *)
(* NoiseModel registration table (NoiseModel.add) and the noise injection  *)
(* pass (NoiseModel.apply).                                                *)
(*                                                                         *)
(* Python values are encoded as follows.                                   *)
(*   - A filter argument is a record [kind, v]: kind "none" is None, kind  *)
(*     "int" is an int (v = <<n>>), kind "tuple" is a tuple of ints        *)
(*     (v = the tuple), kind "malformed" is a value that is neither None,  *)
(*     an int nor iterable (for instance the float 1.5).                   *)
(*   - Numeric parameters of an error are opaque strings ("0.5"), the      *)
(*     default seed None is the string "None".                             *)
(*   - A gate of the circuit queue is a record [kind, type, qubits,        *)
(*     options]; gate.qubits is the tuple of qubits the gate acts on, as   *)
(*     the circuit library reports it.                                     *)
(***************************************************************************)
EXTENDS Integers, Sequences, FiniteSets, TLC

\* ---------------------------------------------------------------- bounds
\* Longest circuit queue handed to apply.
MaxLen == 2

\* Number of qubits of the circuits.
NQubits == 2

Qubits == 0 .. (NQubits - 1)

\* ------------------------------------------------------- Python values
None == [kind |-> "none", v |-> <<>>]

IntVal(n) == [kind |-> "int", v |-> <<n>>]

TupleVal(t) == [kind |-> "tuple", v |-> t]

\* A value that is not None, not an int and not iterable (e.g. 1.5).
Malformed == [kind |-> "malformed", v |-> <<>>]

\* isinstance(x, int)
IsInt(x) == x.kind = "int"

\* Python truth value of a filter value: None and () are false.
Truthy(x) ==
    CASE x.kind = "none" -> FALSE
      [] x.kind = "tuple" -> x.v # <<>>
      [] x.kind = "int" -> x.v[1] # 0
      [] OTHER -> TRUE

\* Whether iter(x) succeeds: None, ints and floats are not iterable.
Iterable(x) == x.kind = "tuple"

\* set(t) for a tuple t.
SetOf(t) == {t[i] : i \in 1 .. Len(t)}

\* tuple(s) for a set s of small non-negative ints: CPython iterates such a
\* set in increasing order.
RECURSIVE TupleOfSet(_)
TupleOfSet(s) ==
    IF s = {} THEN <<>>
    ELSE LET m == CHOOSE x \in s : \A y \in s : x <= y
         IN <<m>> \o TupleOfSet(s \ {m})

\* ---------------------------------------------------- error descriptors
PauliError(px, py, pz, seed) ==
    [options |-> <<px, py, pz, seed>>, channel |-> "PauliNoiseChannel"]

ThermalRelaxationError(t1, t2, time, excited_population, seed) ==
    [options |-> <<t1, t2, time, excited_population, seed>>,
     channel |-> "ThermalRelaxationChannel"]

ResetError(p0, p1, seed) ==
    [options |-> <<p0, p1, seed>>, channel |-> "ResetChannel"]

\* error.channel(q, *error.options): the channel gate built for qubit q.
NoOptionsChannel(error, q) ==
    [kind |-> "channel", type |-> error.channel, qubits |-> <<q>>,
     options |-> <<>>]

Channel(error, q) ==
    [kind |-> "channel", type |-> error.channel, qubits |-> <<q>>,
     options |-> error.options]

\* ------------------------------------------------------------- circuits
H(q) == [kind |-> "gate", type |-> "H", qubits |-> <<q>>, options |-> <<>>]

CNOT(c, t) ==
    [kind |-> "gate", type |-> "CNOT", qubits |-> <<c, t>>, options |-> <<>>]

GateTypes == {"H", "CNOT"}

Gates == {H(q) : q \in Qubits} \cup {CNOT(0, 1)}

Circuits == UNION {[1 .. n -> Gates] : n \in 0 .. MaxLen}

\* ------------------------------------------------------ NoiseModel.add
\* self.errors maps a gate type to an entry or to NoEntry (key absent).
NoEntry == [present |-> FALSE]

Entry(error, source_qubits, target_qubits) ==
    [present |-> TRUE, error |-> error, source_qubits |-> source_qubits,
     target_qubits |-> target_qubits]

\* Lines 80-85.  The local `qubits` is bound only when source_qubits is an
\* int; otherwise reading it on line 85 raises UnboundLocalError before the
\* table is written.
AddDropsOnRaise(errs, error, gate, source_qubits, target_qubits) ==
    LET tq == IF IsInt(target_qubits) THEN TupleVal(target_qubits.v)
              ELSE target_qubits
    IN IF IsInt(source_qubits)
       THEN [raised |-> FALSE,
             errors |-> [errs EXCEPT
                         ![gate] = Entry(error, TupleVal(source_qubits.v), tq)]]
       ELSE [raised |-> TRUE, errors |-> [errs EXCEPT ![gate] = NoEntry]]

AddKeepsFirst(errs, error, gate, source_qubits, target_qubits) ==
    LET tq == IF IsInt(target_qubits) THEN TupleVal(target_qubits.v)
              ELSE target_qubits
    IN IF IsInt(source_qubits)
       THEN [raised |-> FALSE,
             errors |-> IF errs[gate].present THEN errs
                        ELSE [errs EXCEPT
                              ![gate] = Entry(error, TupleVal(source_qubits.v), tq)]]
       ELSE [raised |-> TRUE, errors |-> errs]

AddCall(errs, error, gate, source_qubits, target_qubits) ==
    LET tq == IF IsInt(target_qubits) THEN TupleVal(target_qubits.v)
              ELSE target_qubits
    IN IF IsInt(source_qubits)
       THEN [raised |-> FALSE,
             errors |-> [errs EXCEPT
                         ![gate] = Entry(error, TupleVal(source_qubits.v), tq)]]
       ELSE [raised |-> TRUE, errors |-> errs]

\* ---------------------------------------------------- NoiseModel.apply
\* Line 101: gate.__class__ in self.errors
Registered(errs, gate) == errs[gate.type].present

\* Lines 102-111: the tuple of qubits that receive a channel after `gate`.
\* raised is TRUE when set(source_qubits) raises TypeError.
SelectIgnoresSource(entry, gate) ==
    LET s == entry.source_qubits
        t == entry.target_qubits
    IN IF s.kind = "none" /\ t.kind = "none"
       THEN [raised |-> FALSE, qubits |-> TupleVal(gate.qubits)]
       ELSE IF s.kind = "none" /\ Truthy(t)
       THEN [raised |-> FALSE, qubits |-> t]
       ELSE IF Truthy(s) /\ t.kind = "none"
       THEN [raised |-> FALSE, qubits |-> TupleVal(gate.qubits)]
       ELSE IF ~Iterable(s)
       THEN [raised |-> TRUE, qubits |-> TupleVal(<<>>)]
       ELSE LET i == TupleOfSet(SetOf(gate.qubits) \cap SetOf(s.v))
            IN [raised |-> FALSE,
                qubits |-> IF i = <<>> THEN TupleVal(i) ELSE t]

SelectTargetAlways(entry, gate) ==
    LET s == entry.source_qubits
        t == entry.target_qubits
    IN IF s.kind = "none" /\ t.kind = "none"
       THEN [raised |-> FALSE, qubits |-> TupleVal(gate.qubits)]
       ELSE IF s.kind = "none" /\ Truthy(t)
       THEN [raised |-> FALSE, qubits |-> t]
       ELSE IF Truthy(s) /\ t.kind = "none"
       THEN IF ~Iterable(s)
            THEN [raised |-> TRUE, qubits |-> TupleVal(<<>>)]
            ELSE [raised |-> FALSE,
                  qubits |-> TupleVal(TupleOfSet(SetOf(gate.qubits)
                                                \cap SetOf(s.v)))]
       ELSE IF ~Iterable(s)
       THEN [raised |-> TRUE, qubits |-> TupleVal(<<>>)]
       ELSE [raised |-> FALSE, qubits |-> t]

SelectQubits(entry, gate) ==
    LET s == entry.source_qubits
        t == entry.target_qubits
    IN IF s.kind = "none" /\ t.kind = "none"
       THEN [raised |-> FALSE, qubits |-> TupleVal(gate.qubits)]
       ELSE IF s.kind = "none" /\ Truthy(t)
       THEN [raised |-> FALSE, qubits |-> t]
       ELSE IF Truthy(s) /\ t.kind = "none"
       THEN IF ~Iterable(s)
            THEN [raised |-> TRUE, qubits |-> TupleVal(<<>>)]
            ELSE [raised |-> FALSE,
                  qubits |-> TupleVal(TupleOfSet(SetOf(gate.qubits)
                                                \cap SetOf(s.v)))]
       ELSE IF ~Iterable(s)
       THEN [raised |-> TRUE, qubits |-> TupleVal(<<>>)]
       ELSE LET i == TupleOfSet(SetOf(gate.qubits) \cap SetOf(s.v))
            IN [raised |-> FALSE,
                qubits |-> IF i = <<>> THEN TupleVal(i) ELSE t]

\* Lines 112-113: for q in qubits: noisy_circuit.add(error.channel(...)).
RECURSIVE AddChannels(_, _, _)
AddChannels(noisy, error, qubits) ==
    IF qubits = <<>> THEN noisy
    ELSE AddChannels(Append(noisy, Channel(error, Head(qubits))),
                     error, Tail(qubits))

\* Lines 100-113: one iteration of the loop over circuit.queue.  `for q in
\* qubits` raises TypeError when qubits is not iterable.
NoiseBeforeGate(errs, noisy, gate) ==
    IF ~Registered(errs, gate)
    THEN [raised |-> FALSE, queue |-> Append(noisy, gate)]
    ELSE LET entry == errs[gate.type]
             sel == SelectQubits(entry, gate)
         IN IF sel.raised \/ ~Iterable(sel.qubits)
            THEN [raised |-> TRUE, queue |-> Append(noisy, gate)]
            ELSE [raised |-> FALSE,
                  queue |-> Append(AddChannels(noisy, entry.error,
                                               sel.qubits.v), gate)]

DropsUnregistered(errs, noisy, gate) ==
    IF ~Registered(errs, gate)
    THEN [raised |-> FALSE, queue |-> noisy]
    ELSE LET entry == errs[gate.type]
             sel == SelectQubits(entry, gate)
         IN IF sel.raised \/ ~Iterable(sel.qubits)
            THEN [raised |-> TRUE, queue |-> Append(noisy, gate)]
            ELSE [raised |-> FALSE,
                  queue |-> AddChannels(Append(noisy, gate), entry.error,
                                        sel.qubits.v)]

ApplyGate(errs, noisy, gate) ==
    IF ~Registered(errs, gate)
    THEN [raised |-> FALSE, queue |-> Append(noisy, gate)]
    ELSE LET entry == errs[gate.type]
             sel == SelectQubits(entry, gate)
         IN IF sel.raised \/ ~Iterable(sel.qubits)
            THEN [raised |-> TRUE, queue |-> Append(noisy, gate)]
            ELSE [raised |-> FALSE,
                  queue |-> AddChannels(Append(noisy, gate), entry.error,
                                        sel.qubits.v)]

\* Lines 98-118: the loop over circuit.queue, from an empty noisy circuit.
\* i is the position of the iterator in circuit.queue; the queue itself is
\* only read.  circuit is the queue of the argument when the call ends.
RECURSIVE ApplyLoop(_, _, _, _)
ApplyLoop(errs, queue, i, noisy) ==
    IF i > Len(queue)
    THEN [raised |-> FALSE, queue |-> noisy, circuit |-> queue]
    ELSE LET r == ApplyGate(errs, noisy, queue[i])
         IN IF r.raised
            THEN [raised |-> TRUE, queue |-> r.queue, circuit |-> queue]
            ELSE ApplyLoop(errs, queue, i + 1, r.queue)

ApplyCall(errs, queue) == ApplyLoop(errs, queue, 1, <<>>)

\* ------------------------------------------------------- state machine
\* errors: self.errors of the one NoiseModel instance.
\* result: the most recent call on it: its arguments and its outcome.
VARIABLES errors, result

vars == <<errors, result>>

Errors == {PauliError("0.5", "0", "0", "None"), ResetError("0", "0.5", "None")}

SourceArgs == {None, IntVal(0), IntVal(1), TupleVal(<<0, 1>>)}

TargetArgs == {None, IntVal(1), TupleVal(<<1, 0, 1>>), Malformed}

\* NoiseModel.__init__
Init ==
    /\ errors = [g \in GateTypes |-> NoEntry]
    /\ result = [op |-> "init"]

\* replaced records whether the call put a different entry in the place of
\* an existing one.
add(error, gate, source_qubits, target_qubits) ==
    LET r == AddCall(errors, error, gate, source_qubits, target_qubits)
    IN /\ errors' = r.errors
       /\ result' = [op |-> "add", error |-> error, gate |-> gate,
                     source_qubits |-> source_qubits,
                     target_qubits |-> target_qubits, raised |-> r.raised,
                     replaced |-> /\ errors[gate].present
                                  /\ r.errors[gate] # errors[gate]]

\* apply assigns neither self.errors nor circuit.queue.  arg is the queue
\* of the argument when the call starts, circuit the same queue when the
\* call ends, out the queue of the returned circuit (<<>> when the call
\* raised and nothing is returned).
apply(circuit) ==
    LET r == ApplyCall(errors, circuit)
    IN /\ errors' = errors
       /\ result' = [op |-> "apply", arg |-> circuit, circuit |-> r.circuit,
                     raised |-> r.raised,
                     out |-> IF r.raised THEN <<>> ELSE r.queue]

Next ==
    \/ \E error \in Errors, gate \in GateTypes,
          source_qubits \in SourceArgs, target_qubits \in TargetArgs :
          add(error, gate, source_qubits, target_qubits)
    \/ \E circuit \in Circuits : apply(circuit)

Spec == Init /\ [][Next]_vars

\* =================================================== reading an output
\* The call that just ended is an apply that returned a circuit.
Applied == result.op = "apply" /\ ~result.raised

\* Positions of the original gates in an output queue.
GatePos(out) == {k \in 1 .. Len(out) : out[k].kind = "gate"}

\* The channels that directly follow position k, up to the next original
\* gate or the end of the queue.
BlockEnd(out, k) ==
    CHOOSE j \in (k + 1) .. (Len(out) + 1) :
        /\ j = Len(out) + 1 \/ out[j].kind = "gate"
        /\ \A i \in (k + 1) .. (j - 1) : out[i].kind = "channel"

Block(out, k) == SubSeq(out, k + 1, BlockEnd(out, k) - 1)

\* The qubits of those channels, in order.
BlockQubits(out, k) ==
    [i \in 1 .. Len(Block(out, k)) |-> Block(out, k)[i].qubits[1]]

IsGate(x) == x.kind = "gate"

\* What the registration table is specified to hold for a filter argument.
Norm(x) == IF x.kind = "int" THEN TupleVal(x.v) ELSE x

WellFormed(x) == x.kind \in {"none", "int", "tuple"}

\* ============================================================== claims

\* C1: after a type T is registered through add with neither filter, apply
\* returns and every occurrence g of T in its output is directly followed
\* by one channel per qubit of g, in the order of g.qubits.
C1_Step ==
    (/\ result.op = "add"
     /\ result.source_qubits = None
     /\ result.target_qubits = None
     /\ result'.op = "apply")
    => /\ ~result'.raised
       /\ \A k \in GatePos(result'.out) :
             result'.out[k].type = result.gate
             => BlockQubits(result'.out, k) = result'.out[k].qubits

C1_NoFilterInjectsPerQubit == [][C1_Step]_vars

\* C2: add completes without error for every combination of absent, single
\* point and collection filters, and the entry of the gate type becomes
\* (error, norm(source_qubits), norm(target_qubits)).
C2_Step ==
    (/\ result'.op = "add"
     /\ WellFormed(result'.source_qubits)
     /\ WellFormed(result'.target_qubits))
    => /\ ~result'.raised
       /\ errors'[result'.gate] =
             Entry(result'.error, Norm(result'.source_qubits),
                   Norm(result'.target_qubits))

C2_AddNormalisesBothFilters == [][C2_Step]_vars

\* C3: for an entry with a source filter S and no target filter, the qubits
\* of the channels injected after an occurrence g of the type are exactly
\* g.qubits \cap S; when the intersection is empty nothing is injected.
C3_SourceFilterIntersects ==
    Applied =>
      \A k \in GatePos(result.out) :
        LET e == errors[result.out[k].type]
            g == result.out[k]
        IN (/\ e.present
            /\ e.source_qubits.kind = "tuple"
            /\ e.target_qubits = None)
           => /\ SetOf(BlockQubits(result.out, k))
                    = SetOf(g.qubits) \cap SetOf(e.source_qubits.v)
              /\ (SetOf(g.qubits) \cap SetOf(e.source_qubits.v) = {}
                    => Block(result.out, k) = <<>>)

\* H registered with source_qubits = 1 only; apply([H(0), H(1)]) returned
\* [H(0), H(1), Channel(1)].
C3_Witness ==
    /\ Applied
    /\ errors["H"].present
    /\ errors["H"].source_qubits = TupleVal(<<1>>)
    /\ errors["H"].target_qubits = None
    /\ result.arg = <<H(0), H(1)>>
    /\ Len(result.out) = 3
    /\ result.out[3].kind = "channel"
    /\ result.out[3].qubits = <<1>>

\* C4: after a type T is registered through add with a target filter F and
\* no source filter, the channels injected after every occurrence of T act
\* on exactly the points of F, whatever the occurrence acts on.
C4_Step ==
    (/\ result.op = "add"
     /\ result.source_qubits = None
     /\ result.target_qubits.kind \in {"int", "tuple"}
     /\ result'.op = "apply")
    => /\ ~result'.raised
       /\ \A k \in GatePos(result'.out) :
             result'.out[k].type = result.gate
             => SetOf(BlockQubits(result'.out, k))
                   = SetOf(Norm(result.target_qubits).v)

C4_TargetFilterOnly == [][C4_Step]_vars

\* C5 as stated: for an entry with a source filter S and a target filter
\* F, the channels injected after every occurrence g of the type act on
\* exactly the points of F, also when g.qubits \cap S is empty.
C5_TargetAlwaysWins ==
    Applied =>
      \A k \in GatePos(result.out) :
        LET e == errors[result.out[k].type]
        IN (/\ e.present
            /\ e.source_qubits.kind = "tuple"
            /\ e.target_qubits.kind = "tuple")
           => SetOf(BlockQubits(result.out, k)) = SetOf(e.target_qubits.v)

\* C5 amended: for an entry with a source filter S and a target filter F,
\* the channels injected after an occurrence g act on exactly the points
\* of F when g.qubits \cap S is not empty, and nothing is injected after g
\* when g.qubits \cap S is empty.
C5_TargetUnlessDisjoint ==
    Applied =>
      \A k \in GatePos(result.out) :
        LET e == errors[result.out[k].type]
            g == result.out[k]
        IN (/\ e.present
            /\ e.source_qubits.kind = "tuple"
            /\ e.target_qubits.kind = "tuple")
           => IF SetOf(g.qubits) \cap SetOf(e.source_qubits.v) = {}
              THEN Block(result.out, k) = <<>>
              ELSE SetOf(BlockQubits(result.out, k))
                      = SetOf(e.target_qubits.v)

\* H registered with source 0 and a target filter; apply([H(1), H(0)])
\* injected nothing after H(1) and the target filter's channels after H(0).
C5_Witness ==
    /\ Applied
    /\ errors["H"].present
    /\ errors["H"].source_qubits = TupleVal(<<0>>)
    /\ errors["H"].target_qubits = TupleVal(<<1, 0, 1>>)
    /\ result.arg = <<H(1), H(0)>>
    /\ Len(result.out) = 5
    /\ result.out[2] = H(0)
    /\ BlockQubits(result.out, 2) = <<1, 0, 1>>

\* C6: apply injects nothing after a gate whose type has no entry in the
\* table; with an empty table apply does not raise and returns a queue
\* equal to its input.
C6_UnregisteredPassThrough ==
    result.op = "apply" =>
      /\ \A k \in GatePos(result.out) :
            ~errors[result.out[k].type].present
            => Block(result.out, k) = <<>>
      /\ (\A t \in GateTypes : ~errors[t].present)
            => ~result.raised /\ result.out = result.arg

\* CNOT has no entry and H has one: apply returned a queue where a CNOT is
\* followed by the next gate and an H by a channel.
C6_Witness ==
    /\ Applied
    /\ ~errors["CNOT"].present
    /\ errors["H"].present
    /\ Len(result.out) = 3
    /\ result.out[1] = CNOT(0, 1)
    /\ result.out[2].type = "H"
    /\ result.out[3].kind = "channel"

\* C7: a successful add for a type replaces the entry of that type by the
\* entry of this call (error and both filters together) and leaves the
\* entries of the other types as they were; apply builds the channels it
\* injects after a gate from the error of the entry the table holds for
\* the type of that gate.
C7_Step ==
    /\ (result'.op = "add" /\ ~result'.raised)
       => /\ errors'[result'.gate] =
               Entry(result'.error, Norm(result'.source_qubits),
                     Norm(result'.target_qubits))
          /\ \A t \in GateTypes \ {result'.gate} : errors'[t] = errors[t]
    /\ (result'.op = "apply" /\ ~result'.raised)
       => \A k \in GatePos(result'.out) :
             \A i \in 1 .. Len(Block(result'.out, k)) :
                /\ errors[result'.out[k].type].present
                /\ Block(result'.out, k)[i].type
                      = errors[result'.out[k].type].error.channel
                /\ Block(result'.out, k)[i].options
                      = errors[result'.out[k].type].error.options

C7_LastWriteWins == [][C7_Step]_vars

\* An add for H has just replaced a different entry for H while CNOT keeps
\* an entry of its own.
C7_Witness ==
    /\ result.op = "add"
    /\ ~result.raised
    /\ result.replaced
    /\ result.gate = "H"
    /\ errors["H"].error = result.error
    /\ errors["CNOT"].present
    /\ errors["CNOT"].error # result.error

\* C8: the output of apply without its channels is the input queue, in
\* order; no channel precedes the first original gate, and every channel
\* sits in the block that follows the gate that triggered it: the nearest
\* original gate before it has a registered type and the channel is the
\* one of that registration.
C8_OrderPreserved ==
    Applied =>
      /\ SelectSeq(result.out, IsGate) = result.arg
      /\ result.out # <<>> => result.out[1].kind = "gate"
      /\ \A j \in 1 .. Len(result.out) :
            result.out[j].kind = "channel"
            => \E k \in GatePos(result.out) :
                  /\ k < j
                  /\ j < BlockEnd(result.out, k)
                  /\ errors[result.out[k].type].present
                  /\ result.out[j].type
                        = errors[result.out[k].type].error.channel

\* A channel sits between the gate that triggered it and the next gate.
C8_Witness ==
    /\ Applied
    /\ Len(result.arg) = 2
    /\ Len(result.out) >= 3
    /\ result.out[1].kind = "gate"
    /\ result.out[2].kind = "channel"
    /\ result.out[Len(result.out)].kind = "gate"

\* Every channel of the block after position k acts on one qubit and
\* carries the channel constructor and the options of the entry verbatim.
BuiltFromEntry(out, k) ==
    \A i \in 1 .. Len(Block(out, k)) :
       /\ Len(Block(out, k)[i].qubits) = 1
       /\ errors[out[k].type].present
       /\ Block(out, k)[i].type = errors[out[k].type].error.channel
       /\ Block(out, k)[i].options = errors[out[k].type].error.options

Distinct(q) == \A i, j \in 1 .. Len(q) : i # j => q[i] # q[j]

\* C9 as stated: the channels injected after one occurrence act on
\* pairwise distinct qubits, also when the filter repeats a point; each
\* acts on a single qubit and is built from the stored parameters.
C9_OneChannelPerDistinctPoint ==
    Applied =>
      \A k \in GatePos(result.out) :
         /\ Distinct(BlockQubits(result.out, k))
         /\ BuiltFromEntry(result.out, k)

\* C9 amended: apply appends one channel per element of the resolved tuple,
\* in its order and with its repetitions: the channels act on pairwise
\* distinct qubits when the entry has no target filter; when a target
\* filter resolves, the qubits of the channels are the target filter as
\* registered, element by element (a filter (1, 0, 1) gives channels on
\* 1, 0, 1).  Each channel acts on a single qubit and is built from the
\* stored parameters verbatim.
C9_OneChannelPerElement ==
    Applied =>
      \A k \in GatePos(result.out) :
         LET e == errors[result.out[k].type]
             q == BlockQubits(result.out, k)
         IN /\ BuiltFromEntry(result.out, k)
            /\ (e.present /\ e.target_qubits = None) => Distinct(q)
            /\ (e.present /\ e.target_qubits.kind = "tuple" /\ q # <<>>)
                  => q = e.target_qubits.v

\* Target filter (1, 0, 1): two channels on qubit 1 after one H(0).
C9_Witness ==
    /\ Applied
    /\ errors["H"].present
    /\ errors["H"].target_qubits = TupleVal(<<1, 0, 1>>)
    /\ result.arg = <<H(0)>>
    /\ BlockQubits(result.out, 1) = <<1, 0, 1>>
    /\ result.out[2].options = errors["H"].error.options

\* C10: apply leaves the table and the queue of its argument as they were,
\* whether it returns or raises; an add that raises leaves the table as it
\* was (the table changes only in an add that completes).
C10_Step ==
    /\ result'.op = "apply"
       => errors' = errors /\ result'.circuit = result'.arg
    /\ (result'.op = "add" /\ result'.raised) => errors' = errors
    /\ errors' # errors => result'.op = "add" /\ ~result'.raised

C10_FrameOfApplyAndFailedAdd == [][C10_Step]_vars

\* apply has just raised on a non-empty table.
C10_Witness ==
    /\ result.op = "apply"
    /\ result.raised
    /\ result.circuit = result.arg
    /\ Len(result.arg) = MaxLen
    /\ \A t \in GateTypes : errors[t].present

====
